---- MODULE Spec2Model ----
(***************************************************************************)
(* The backup cycle of borg-timemachine (src/src/lib.rs, src/src/main.rs). *)
(*                                                                         *)
(* Each process p is one invocation of `borg-timemachine backup`: a fresh  *)
(* BorgBackup value on which run_backup_cycle is called once.  Processes   *)
(* share the lock marker file (logging.lock_file) and the append-only log  *)
(* file; they interleave at statement granularity, a call of               *)
(* Command::status() being split into the spawn and the return of the      *)
(* wait.                                                                   *)
(*                                                                         *)
(* Spec starts after construction (main has set BORG_PASSPHRASE and        *)
(* BorgBackup::new has looked up the host name).  SpecMain starts at main  *)
(* and also runs the `check` subcommand; SpecCli runs every subcommand of  *)
(* the command line, generate-config with the file its OUTPUT names;       *)
(* SpecArgs and SpecHosts draw the                                         *)
(* configuration and the host names that the argument lists of             *)
(* `borg create` and `borg prune` are built from; SpecFair follows one     *)
(* invocation under fairness.  cmds records every Command at its spawn:    *)
(* program, arguments, and whether the child inherits the passphrase.      *)
(*                                                                         *)
(* Environment assumptions: removing an existing marker and appending to   *)
(* an open log handle succeed (the code discards both results); a process  *)
(* is never killed in the middle of a cycle, but a marker left behind by   *)
(* such a kill may exist initially.                                        *)
(***************************************************************************)
EXTENDS Integers, Sequences, FiniteSets, TLC

\* ---------------------------------------------------------------- bounds
MaxExitCode == 2       \* the children exit with a code in 0..MaxExitCode
MaxCheckDay == 1       \* maintenance.check_day ranges over 0..MaxCheckDay
MaxExclusions == 2     \* config.exclusions has up to MaxExclusions patterns
MaxJobs == 2           \* config.jobs has up to MaxJobs jobs
MaxJobExcludes == 1    \* a job's exclude has up to MaxJobExcludes patterns
MaxHostLen == 3        \* a host name has up to MaxHostLen characters

\* ------------------------------------------------------ program constants
DaysInWeek == 7        \* weekday().num_days_from_monday() + 1 is in 1..7
FailCode == 2          \* status.code().unwrap_or(2); if exit_code >= 2
Signal == -1           \* status.code() = None: the child was killed by a signal

\* Two processes: an invocation and "a second invocation" beside it.
Procs == {1, 2}
Statuses == (0..MaxExitCode) \cup {Signal}
\* weekday().num_days_from_monday() + 1: Monday is 1
Weekdays == 1..DaysInWeek
NoDay == 0             \* p is not inside check_repository: no local `today`

\* Result<(), String> of run_backup_cycle and of its stages.
Ok == [kind |-> "ok", stage |-> "", code |-> 0]
Err(kind, stage, code) == [kind |-> kind, stage |-> stage, code |-> code]
NoResult == [kind |-> "none", stage |-> "", code |-> 0]
IsErr(r) == r.kind \notin {"ok", "none"}

\* The archiver stages, in the order of run_backup_cycle_inner.
Stages == <<"create", "prune", "compact", "check">>
StageSet == {Stages[i] : i \in 1..Len(Stages)}

VARIABLES
  config,      \* Config, loaded once; notifications.enabled is `enabled`
  lock_file,   \* TRUE iff the lock marker file exists
  pc,          \* pc[p]: the statement p executes next
  log_handle,  \* log_handle[p]: TRUE iff self.log_handle is Some
  log_file,    \* log_file[p]: the lines p appended to the log file
  spawned,     \* spawned[p]: the programs p tried to spawn, in order
  children,    \* children[p]: spawned children p has not waited for
  last_exit,   \* last_exit[p]: the local `status` of the stage that just ended
  today,       \* today[p]: the local `today` of check_repository
  result,      \* result[p]: the local `result` of run_backup_cycle
  ret,         \* ret[p]: the value run_backup_cycle returned
  mail,        \* mail[p]: what became of the notification
  events,      \* events[p]: the order of p's cleanup steps
  at_start,    \* at_start[p]: the marker and the other invocation when p started
  command,     \* command[p]: the subcommand p was started with
  output,      \* output[p]: the file the OUTPUT of generate-config names
  hostname,    \* hostname[p]: self.hostname, the output of `hostname -s`
  env,         \* env[p]: TRUE iff BORG_PASSPHRASE is set in p's environment
  cmds         \* cmds[p]: the Commands p spawned, in order

vars == <<config, lock_file, pc, log_handle, log_file, spawned,
          children, last_exit, today, result, ret, mail, events, at_start,
          command, output, hostname, env, cmds>>

\* No stage has just ended: there is no local `status`.
NoExit == [stage |-> "", status |-> 0]

\* ----------------------------------------------------------------- helpers

\* status.code().unwrap_or(2)
exit_code(status) == IF status = Signal THEN FailCode ELSE status

\* BorgBackup::log: the line reaches the file only through an open handle.
log(p, lines) ==
  IF log_handle[p] THEN [log_file EXCEPT ![p] = @ \o lines] ELSE log_file

\* p is between a successful create_lock and its remove_lock.
InCycle(p) ==
  pc[p] \in {"open_log", "create_backup", "create_wait", "prune_backups",
             "prune_wait", "compact_repository", "compact_wait",
             "check_repository", "check_day_test", "check_wait",
             "log_complete", "handle_result",
             "send_failure_notification", "mail_write", "mail_wait",
             "remove_lock"}

\* p is executing one of its stages: open log, create, prune, compact, check.
InStage(p) ==
  pc[p] \in {"open_log", "create_backup", "create_wait", "prune_backups",
             "prune_wait", "compact_repository", "compact_wait",
             "check_repository", "check_day_test", "check_wait",
             "log_complete"}

\* What the invocations beside p are doing: "locked" when one is between its
\* create_lock and its remove_lock, "acquiring" when one has passed check_lock
\* and not yet run create_lock, "none" otherwise.
Peer(p) ==
  IF \E q \in Procs \ {p} : InCycle(q) THEN "locked"
  ELSE IF \E q \in Procs \ {p} : pc[q] = "create_lock" THEN "acquiring"
  ELSE "none"

Count(seq, x) == Cardinality({i \in 1..Len(seq) : seq[i] = x})

\* ------------------------------------------------- strings and Commands

\* A String is the sequence of its characters.  A text that is never taken
\* apart (a path, a pattern, a flag) is a sequence of one element.
Str(text) == <<text>>

Digit == <<"0", "1", "2", "3", "4", "5", "6", "7", "8", "9">>

\* format!("{}", n) of a u32: its decimal digits.
RECURSIVE Decimal(_)
Decimal(n) ==
  IF n < Len(Digit) THEN <<Digit[n + 1]>>
  ELSE Decimal(n \div Len(Digit)) \o <<Digit[(n % Len(Digit)) + 1]>>

\* str::starts_with
IsPrefix(pre, str) ==
  /\ Len(pre) <= Len(str)
  /\ SubSeq(str, 1, Len(pre)) = pre

\* if flag { cmd.arg(text) }
Flag(flag, text) == IF flag THEN <<Str(text)>> ELSE <<>>

\* for pattern in patterns { cmd.arg("--exclude").arg(pattern) }
RECURSIVE ExcludeArgs(_)
ExcludeArgs(patterns) ==
  IF patterns = <<>> THEN <<>>
  ELSE <<Str("--exclude"), Head(patterns)>> \o ExcludeArgs(Tail(patterns))

\* The loop over the jobs without its test of job.enabled.
RECURSIVE JobArgs_all(_)
JobArgs_all(jobs) ==
  IF jobs = <<>> THEN <<>>
  ELSE <<Head(jobs).source>> \o ExcludeArgs(Head(jobs).exclude)
       \o JobArgs_all(Tail(jobs))

\* for job in jobs { if job.enabled { source, then its exclusions } }
RECURSIVE JobArgs(_)
JobArgs(jobs) ==
  IF jobs = <<>> THEN <<>>
  ELSE (IF Head(jobs).enabled
          THEN <<Head(jobs).source>> \o ExcludeArgs(Head(jobs).exclude)
          ELSE <<>>) \o JobArgs(Tail(jobs))

\* format!("{}-{}", self.hostname, Local::now().format("%Y-%m-%d-%H%M%S"))
archive_name(host, timestamp) == host \o Str("-") \o timestamp

\* format!("{}::{}", self.config.repository.path, archive_name)
archive_path(repo, name) == repo \o Str("::") \o name

\* The global exclusions added last, behind the sources of the jobs.
CreateArgs_exclusions_last(p, timestamp) ==
  <<Str("create")>>
  \o Flag(config.options.show_stats, "--stats")
  \o Flag(config.options.show_progress, "--progress")
  \o Flag(config.options.one_file_system, "--one-file-system")
  \o Flag(config.options.exclude_caches, "--exclude-caches")
  \o <<Str("--compression=") \o config.compression>>
  \o <<archive_path(config.path, archive_name(hostname[p], timestamp))>>
  \o JobArgs(config.jobs)
  \o ExcludeArgs(config.exclusions)

\* The arguments of `borg create`, in the order create_backup adds them.
CreateArgs(p, timestamp) ==
  <<Str("create")>>
  \o Flag(config.options.show_stats, "--stats")
  \o Flag(config.options.show_progress, "--progress")
  \o Flag(config.options.one_file_system, "--one-file-system")
  \o Flag(config.options.exclude_caches, "--exclude-caches")
  \o <<Str("--compression=") \o config.compression>>
  \o ExcludeArgs(config.exclusions)
  \o <<archive_path(config.path, archive_name(hostname[p], timestamp))>>
  \o JobArgs(config.jobs)

\* format!("--prefix={}-", self.hostname) without its "--prefix=".
PrunePrefix(host) == host \o Str("-")

\* The arguments of `borg prune`.
PruneArgs(p) ==
  <<Str("prune"), Str("--list"),
    Str("--prefix=") \o PrunePrefix(hostname[p]),
    Str("--keep-within=") \o config.retention.within,
    Str("--keep-hourly=") \o Decimal(config.retention.hourly),
    Str("--keep-daily=") \o Decimal(config.retention.daily),
    Str("--keep-weekly=") \o Decimal(config.retention.weekly),
    Str("--keep-monthly=") \o Decimal(config.retention.monthly),
    Str("--keep-yearly=") \o Decimal(config.retention.yearly),
    config.path>>

\* .args(["compact", &self.config.repository.path])
CompactArgs == <<Str("compact"), config.path>>

\* .args(["check", &self.config.repository.path])
CheckArgs == <<Str("check"), config.path>>

\* .args(["-s", &subject, &self.config.notifications.email])
MailArgs(p) ==
  <<Str("-s"), Str("Backup Failure on ") \o hostname[p], config.email>>

\* A Command at its spawn: the child inherits the environment of p.
Command(p, program, args) ==
  [program |-> program, args |-> args, passphrase |-> env[p]]

\* Command::new("hostname").arg("-s")
HostnameCommand(p) == Command(p, "hostname", <<Str("-s")>>)

\* ------------------------------------------------------------------ Config

\* test_load_default_config, test_retention_policy: the built-in values, as
\* far as the tests tell them; the other fields are values like any other.
DefaultPath == Str("/tmp/borg")
DefaultCompression == Str("lz4")
DefaultRetention ==
  [within |-> Str("24H"), hourly |-> 24, daily |-> 7,
   weekly |-> 4, monthly |-> 6, yearly |-> 1]
DefaultOptions ==
  [one_file_system |-> TRUE, exclude_caches |-> TRUE,
   show_progress |-> FALSE, show_stats |-> TRUE]
DefaultExclusions == <<Str("*.cache")>>
DefaultJobs ==
  <<[source |-> Str("/etc"), enabled |-> TRUE, exclude |-> <<Str("*.tmp")>>]>>
DefaultEmail == Str("root@localhost")
DefaultHostname == Str("host")

\* The Configs whose notifications, maintenance, options, exclusions and jobs
\* are drawn from the given sets; the other fields have the built-in values.
Configs(enabled, auto_compact, check_day, options, exclusions, jobs) ==
  [enabled : enabled, auto_compact : auto_compact, check_day : check_day,
   options : options, exclusions : exclusions, jobs : jobs,
   path : {DefaultPath}, compression : {DefaultCompression},
   retention : {DefaultRetention}, email : {DefaultEmail}]

\* Local::now().format("%Y-%m-%d-%H%M%S")
Timestamps == {Str("2026-11-02-031500")}

\* The subcommands of main that take a configuration.
Commands == {"backup", "check"}

\* #[arg(value_name = "OUTPUT", default_value = "borg-config.yaml")]
DefaultOutput == "borg-config.yaml"

\* ------------------------------------------------------------------- Init

\* Nothing has run yet: no handle, no child, no local, no result.
InitLocals ==
  /\ log_handle = [p \in Procs |-> FALSE]
  /\ log_file = [p \in Procs |-> <<>>]
  /\ spawned = [p \in Procs |-> <<>>]
  /\ children = [p \in Procs |-> {}]
  /\ last_exit = [p \in Procs |-> NoExit]
  /\ today = [p \in Procs |-> NoDay]
  /\ result = [p \in Procs |-> NoResult]
  /\ ret = [p \in Procs |-> NoResult]
  /\ mail = [p \in Procs |-> "none"]
  /\ events = [p \in Procs |-> <<>>]
  /\ at_start = [p \in Procs |-> [lock |-> FALSE, peer |-> "none"]]

\* The state after construction: main has set BORG_PASSPHRASE and
\* BorgBackup::new has run `hostname -s`; every process runs `backup`.
Init ==
  /\ config \in Configs(BOOLEAN, BOOLEAN, 0..MaxCheckDay, {DefaultOptions},
                        {DefaultExclusions}, {DefaultJobs})
  /\ lock_file \in BOOLEAN
  /\ command = [p \in Procs |-> "backup"]
  /\ output = [p \in Procs |-> DefaultOutput]
  /\ hostname = [p \in Procs |-> DefaultHostname]
  /\ env = [p \in Procs |-> TRUE]
  /\ cmds = [p \in Procs |-> <<HostnameCommand(p)>>]
  /\ pc = [p \in Procs |-> "idle"]
  /\ InitLocals

\* ------------------------------------------------- run_backup_cycle: lock

\* A `?` of run_backup_cycle itself: the error is returned at once.
ReturnEarly(p, e) ==
  /\ ret' = [ret EXCEPT ![p] = e]
  /\ pc' = [pc EXCEPT ![p] = "returned"]

\* check_lock with its test dropped: the invocation goes on whatever it finds.
check_lock_blind(p) ==
  /\ pc[p] = "idle"
  /\ at_start' = [at_start EXCEPT ![p] = [lock |-> lock_file, peer |-> Peer(p)]]
  /\ pc' = [pc EXCEPT ![p] = "create_lock"]
  /\ UNCHANGED <<config, command, output, hostname, env, lock_file,
                 log_handle, log_file, spawned, cmds, children, last_exit,
                 today, result, ret, mail, events>>

\* check_lock run after the log was opened: a rejected invocation logs its error.
check_lock_logged(p) ==
  /\ pc[p] = "idle"
  /\ at_start' = [at_start EXCEPT ![p] = [lock |-> lock_file, peer |-> Peer(p)]]
  /\ IF lock_file
       THEN /\ ReturnEarly(p, Err("lock_held", "", 0))
            /\ log_handle' = [log_handle EXCEPT ![p] = TRUE]
            /\ log_file' = [log_file EXCEPT ![p] = <<"ERROR">>]
       ELSE /\ pc' = [pc EXCEPT ![p] = "create_lock"]
            /\ UNCHANGED <<ret, log_handle, log_file>>
  /\ UNCHANGED <<config, command, output, hostname, env, lock_file, spawned,
                 cmds, children, last_exit, today, result, mail, events>>

\* remove_lock run on every way out: a rejected invocation removes the
\* marker it found.
check_lock_cleanup(p) ==
  /\ pc[p] = "idle"
  /\ at_start' = [at_start EXCEPT ![p] = [lock |-> lock_file, peer |-> Peer(p)]]
  /\ IF lock_file
       THEN /\ ReturnEarly(p, Err("lock_held", "", 0))
            /\ lock_file' = FALSE
       ELSE /\ pc' = [pc EXCEPT ![p] = "create_lock"]
            /\ UNCHANGED <<ret, lock_file>>
  /\ UNCHANGED <<config, command, output, hostname, env, log_handle, log_file,
                 spawned, cmds, children, last_exit, today, result, mail,
                 events>>

\* The test and the creation of the marker as one step, as an exclusive
\* create would do them.
check_lock_atomic(p) ==
  /\ pc[p] = "idle"
  /\ at_start' = [at_start EXCEPT ![p] = [lock |-> lock_file, peer |-> Peer(p)]]
  /\ IF lock_file
       THEN /\ ReturnEarly(p, Err("lock_held", "", 0))
            /\ UNCHANGED lock_file
       ELSE /\ lock_file' = TRUE
            /\ pc' = [pc EXCEPT ![p] = "create_lock"]
            /\ UNCHANGED ret
  /\ UNCHANGED <<config, command, output, hostname, env, log_handle, log_file,
                 spawned, cmds, children, last_exit, today, result, mail,
                 events>>

\* Process p calls run_backup_cycle; its first statement is check_lock.
check_lock(p) ==
  /\ pc[p] = "idle"
  /\ at_start' = [at_start EXCEPT ![p] = [lock |-> lock_file, peer |-> Peer(p)]]
  /\ IF lock_file
       THEN ReturnEarly(p, Err("lock_held", "", 0))
       ELSE /\ pc' = [pc EXCEPT ![p] = "create_lock"]
            /\ UNCHANGED ret
  /\ UNCHANGED <<config, command, output, hostname, env, lock_file,
                 log_handle, log_file, spawned, cmds, children, last_exit,
                 today, result, mail, events>>

\* create_lock writing some other path: the marker is never created.
create_lock_elsewhere(p) ==
  /\ pc[p] = "create_lock"
  /\ \/ /\ pc' = [pc EXCEPT ![p] = "open_log"]
        /\ UNCHANGED ret
     \/ /\ ReturnEarly(p, Err("create_lock", "", 0))
  /\ UNCHANGED <<config, command, output, hostname, env, lock_file,
                 log_handle, log_file, spawned, cmds, children, last_exit,
                 today, result, mail, events, at_start>>

\* fs::write(lock_file, ""): creates the marker, or fails and leaves it alone.
create_lock(p) ==
  /\ pc[p] = "create_lock"
  /\ \/ /\ lock_file' = TRUE
        /\ pc' = [pc EXCEPT ![p] = "open_log"]
        /\ UNCHANGED ret
     \/ /\ ReturnEarly(p, Err("create_lock", "", 0))
        /\ UNCHANGED lock_file
  /\ UNCHANGED <<config, command, output, hostname, env, log_handle, log_file,
                 spawned, cmds, children, last_exit, today, result, mail,
                 events, at_start>>

\* ------------------------------------------------- run_backup_cycle_inner

\* Where an Err of a stage goes: to `result` of run_backup_cycle, or to
\* `result` of main when main called the stage itself.
AfterErr(p) == IF command[p] = "backup" THEN "handle_result" ELSE "main_result"

\* A `?` of run_backup_cycle_inner: `result` is the error, the stages end.
InnerErr(p, e) ==
  /\ result' = [result EXCEPT ![p] = e]
  /\ pc' = [pc EXCEPT ![p] = AfterErr(p)]

\* open_log called with `?` by run_backup_cycle itself: its error is
\* returned at once, past remove_lock.
open_log_unguarded(p) ==
  /\ pc[p] = "open_log"
  /\ \/ /\ log_handle' = [log_handle EXCEPT ![p] = TRUE]
        /\ pc' = [pc EXCEPT ![p] = "create_backup"]
        /\ UNCHANGED ret
     \/ /\ ReturnEarly(p, Err("open_log", "", 0))
        /\ UNCHANGED log_handle
  /\ UNCHANGED <<config, command, output, hostname, env, lock_file, log_file,
                 spawned, cmds, children, last_exit, today, result, mail,
                 events, at_start>>

\* OpenOptions::new().create(true).append(true).open(log_file)
open_log(p) ==
  /\ pc[p] = "open_log"
  /\ \/ /\ log_handle' = [log_handle EXCEPT ![p] = TRUE]
        /\ pc' = [pc EXCEPT ![p] = "create_backup"]
        /\ UNCHANGED result
     \/ /\ InnerErr(p, Err("open_log", "", 0))
        /\ UNCHANGED log_handle
  /\ UNCHANGED <<config, command, output, hostname, env, lock_file, log_file,
                 spawned, cmds, children, last_exit, today, ret, mail, events,
                 at_start>>

\* The stage after s, or "log_complete" after the last one.
NextStage(s) ==
  CASE s = "create" -> "prune_backups"
    [] s = "prune" -> "compact_repository"
    [] s = "compact" -> "check_repository"
    [] s = "check" -> "log_complete"

\* Where p goes on when stage s returned Ok(()): to the next stage, or back
\* to main when main called the stage itself.
AfterStage(p, s) ==
  IF command[p] = "backup" THEN NextStage(s) ELSE "main_result"

\* cmd.status(): the spawn.  It either starts the child or fails at once.
Spawn(p, s, args, lines, waitpc) ==
  /\ spawned' = [spawned EXCEPT ![p] = Append(@, s)]
  /\ cmds' = [cmds EXCEPT ![p] = Append(@, Command(p, "borg", args))]
  /\ log_file' = log(p, lines)
  /\ \/ /\ children' = [children EXCEPT ![p] = @ \cup {s}]
        /\ pc' = [pc EXCEPT ![p] = waitpc]
        /\ UNCHANGED result
     \/ /\ InnerErr(p, Err("spawn", s, 0))
        /\ UNCHANGED children

\* A stage that is switched off: Ok(()) without a log line or a child.
Skip(p, s) ==
  /\ pc' = [pc EXCEPT ![p] = AfterStage(p, s)]
  /\ UNCHANGED <<log_file, spawned, cmds, children, result>>

\* The threshold one too low: a warning exit counts as a failure.
HardFailure_strict(status) == exit_code(status) >= 1

\* The exit status is a hard failure: exit_code >= 2.
HardFailure(status) == exit_code(status) >= FailCode

\* The line a stage logs after its child exited with 0 or 1.
DoneLine(s, status) ==
  CASE s = "create" -> IF exit_code(status) = 1
                         THEN "Backup created with warnings"
                         ELSE "Backup created successfully"
    [] s = "prune" -> "Prune completed"
    [] s = "compact" -> "Compact completed"
    [] s = "check" -> "Integrity check passed"

\* The stage going on without waiting: its child is still running.
Wait_detached(p, s) ==
  \E status \in Statuses :
    /\ UNCHANGED children
    /\ last_exit' = [last_exit EXCEPT ![p] = [stage |-> s, status |-> status]]
    /\ IF HardFailure(status)
         THEN /\ InnerErr(p, Err("exit", s, exit_code(status)))
              /\ UNCHANGED log_file
         ELSE /\ log_file' = log(p, <<DoneLine(s, status)>>)
              /\ pc' = [pc EXCEPT ![p] = AfterStage(p, s)]
              /\ UNCHANGED result

\* cmd.status(): the child exits and the stage interprets its status.
Wait(p, s) ==
  \E status \in Statuses :
    /\ children' = [children EXCEPT ![p] = @ \ {s}]
    /\ last_exit' = [last_exit EXCEPT ![p] = [stage |-> s, status |-> status]]
    /\ IF HardFailure(status)
         THEN /\ InnerErr(p, Err("exit", s, exit_code(status)))
              /\ UNCHANGED log_file
         ELSE /\ log_file' = log(p, <<DoneLine(s, status)>>)
              /\ pc' = [pc EXCEPT ![p] = AfterStage(p, s)]
              /\ UNCHANGED result

create_backup(p) ==
  /\ pc[p] = "create_backup"
  /\ \E timestamp \in Timestamps :
       Spawn(p, "create", CreateArgs(p, timestamp), <<"Starting backup">>,
             "create_wait")
  /\ UNCHANGED <<config, command, output, hostname, env, lock_file,
                 log_handle, last_exit, today, ret, mail, events, at_start>>

create_wait(p) ==
  /\ pc[p] = "create_wait"
  /\ Wait(p, "create")
  /\ UNCHANGED <<config, command, output, hostname, env, lock_file,
                 log_handle, spawned, cmds, today, ret, mail, events,
                 at_start>>

prune_backups(p) ==
  /\ pc[p] = "prune_backups"
  /\ last_exit' = [last_exit EXCEPT ![p] = NoExit]
  /\ Spawn(p, "prune", PruneArgs(p), <<"Pruning old backups...">>,
           "prune_wait")
  /\ UNCHANGED <<config, command, output, hostname, env, lock_file,
                 log_handle, today, ret, mail, events, at_start>>

prune_wait(p) ==
  /\ pc[p] = "prune_wait"
  /\ Wait(p, "prune")
  /\ UNCHANGED <<config, command, output, hostname, env, lock_file,
                 log_handle, spawned, cmds, today, ret, mail, events,
                 at_start>>

\* compact_repository without its test of maintenance.auto_compact.
compact_repository_always(p) ==
  /\ pc[p] = "compact_repository"
  /\ last_exit' = [last_exit EXCEPT ![p] = NoExit]
  /\ Spawn(p, "compact", CompactArgs, <<"Compacting repository...">>,
           "compact_wait")
  /\ UNCHANGED <<config, command, output, hostname, env, lock_file,
                 log_handle, today, ret, mail, events, at_start>>

compact_repository(p) ==
  /\ pc[p] = "compact_repository"
  /\ last_exit' = [last_exit EXCEPT ![p] = NoExit]
  /\ IF ~config.auto_compact
       THEN Skip(p, "compact")
       ELSE Spawn(p, "compact", CompactArgs, <<"Compacting repository...">>,
                  "compact_wait")
  /\ UNCHANGED <<config, command, output, hostname, env, lock_file,
                 log_handle, today, ret, mail, events, at_start>>

compact_wait(p) ==
  /\ pc[p] = "compact_wait"
  /\ Wait(p, "compact")
  /\ UNCHANGED <<config, command, output, hostname, env, lock_file,
                 log_handle, spawned, cmds, today, ret, mail, events,
                 at_start>>

\* The day of the week forgotten: the check runs whenever it is switched on.
CheckDue_daily(day) == config.check_day # 0

\* Only run on the configured day.
CheckDue(day) == ~(config.check_day = 0 \/ day # config.check_day)

\* let today = Local::now().weekday().num_days_from_monday() + 1;
check_repository(p) ==
  /\ pc[p] = "check_repository"
  /\ last_exit' = [last_exit EXCEPT ![p] = NoExit]
  /\ \E day \in Weekdays : today' = [today EXCEPT ![p] = day]
  /\ pc' = [pc EXCEPT ![p] = "check_day_test"]
  /\ UNCHANGED <<config, command, output, hostname, env, lock_file,
                 log_handle, log_file, spawned, cmds, children, result, ret,
                 mail, events, at_start>>

\* if check_day == 0 || today != check_day { return Ok(()) }: returning drops
\* the local `today`.
check_day_test(p) ==
  /\ pc[p] = "check_day_test"
  /\ IF ~CheckDue(today[p])
       THEN /\ Skip(p, "check")
            /\ today' = [today EXCEPT ![p] = NoDay]
       ELSE /\ Spawn(p, "check", CheckArgs,
                     <<"Running weekly integrity check...">>, "check_wait")
            /\ UNCHANGED today
  /\ UNCHANGED <<config, command, output, hostname, env, lock_file,
                 log_handle, last_exit, ret, mail, events, at_start>>

check_wait(p) ==
  /\ pc[p] = "check_wait"
  /\ Wait(p, "check")
  /\ today' = [today EXCEPT ![p] = NoDay]
  /\ UNCHANGED <<config, command, output, hostname, env, lock_file,
                 log_handle, spawned, cmds, ret, mail, events, at_start>>

\* self.log("Backup cycle complete"); Ok(())
log_complete(p) ==
  /\ pc[p] = "log_complete"
  /\ last_exit' = [last_exit EXCEPT ![p] = NoExit]
  /\ log_file' = log(p, <<"Backup cycle complete">>)
  /\ result' = [result EXCEPT ![p] = Ok]
  /\ pc' = [pc EXCEPT ![p] = "handle_result"]
  /\ UNCHANGED <<config, command, output, hostname, env, lock_file,
                 log_handle, spawned, cmds, children, today, ret, mail,
                 events, at_start>>

\* ----------------------------------------- run_backup_cycle: after inner

\* Where run_backup_cycle goes once the notification is over.
AfterNotification == "remove_lock"

\* The error reported on the console only: no line reaches the log file.
handle_result_unlogged(p) ==
  /\ pc[p] = "handle_result"
  /\ last_exit' = [last_exit EXCEPT ![p] = NoExit]
  /\ IF IsErr(result[p])
       THEN /\ events' = [events EXCEPT ![p] = Append(@, "log_error")]
            /\ pc' = [pc EXCEPT ![p] = "send_failure_notification"]
       ELSE /\ pc' = [pc EXCEPT ![p] = "remove_lock"]
            /\ UNCHANGED events
  /\ UNCHANGED <<config, command, output, hostname, env, lock_file,
                 log_handle, log_file, spawned, cmds, children, today, result,
                 ret, mail, at_start>>

\* if let Err(ref e) = result { self.log("ERROR: ..."); notify }
handle_result(p) ==
  /\ pc[p] = "handle_result"
  /\ last_exit' = [last_exit EXCEPT ![p] = NoExit]
  /\ IF IsErr(result[p])
       THEN /\ log_file' = log(p, <<"ERROR">>)
            /\ events' = [events EXCEPT ![p] = Append(@, "log_error")]
            /\ pc' = [pc EXCEPT ![p] = "send_failure_notification"]
       ELSE /\ pc' = [pc EXCEPT ![p] = "remove_lock"]
            /\ UNCHANGED <<log_file, events>>
  /\ UNCHANGED <<config, command, output, hostname, env, lock_file,
                 log_handle, spawned, cmds, children, today, result, ret,
                 mail, at_start>>

\* send_failure_notification without its test of notifications.enabled.
send_failure_notification_always(p) ==
  /\ pc[p] = "send_failure_notification"
  /\ events' = [events EXCEPT ![p] = Append(@, "notify")]
  /\ spawned' = [spawned EXCEPT ![p] = Append(@, "mail")]
  /\ cmds' = [cmds EXCEPT ![p] = Append(@, Command(p, "mail", MailArgs(p)))]
  /\ \/ /\ children' = [children EXCEPT ![p] = @ \cup {"mail"}]
        /\ pc' = [pc EXCEPT ![p] = "mail_write"]
        /\ UNCHANGED mail
     \/ /\ mail' = [mail EXCEPT ![p] = "spawn_failed"]
        /\ pc' = [pc EXCEPT ![p] = AfterNotification]
        /\ UNCHANGED children
  /\ UNCHANGED <<config, command, output, hostname, env, lock_file,
                 log_handle, log_file, last_exit, today, result, ret,
                 at_start>>

\* if !enabled { return }  Command::new("mail")...spawn()
send_failure_notification(p) ==
  /\ pc[p] = "send_failure_notification"
  /\ events' = [events EXCEPT ![p] = Append(@, "notify")]
  /\ IF ~config.enabled
       THEN /\ pc' = [pc EXCEPT ![p] = AfterNotification]
            /\ UNCHANGED <<spawned, cmds, children, mail>>
       ELSE /\ spawned' = [spawned EXCEPT ![p] = Append(@, "mail")]
            /\ cmds' = [cmds EXCEPT ![p] =
                          Append(@, Command(p, "mail", MailArgs(p)))]
            /\ \/ /\ children' = [children EXCEPT ![p] = @ \cup {"mail"}]
                  /\ pc' = [pc EXCEPT ![p] = "mail_write"]
                  /\ UNCHANGED mail
               \/ /\ mail' = [mail EXCEPT ![p] = "spawn_failed"]
                  /\ pc' = [pc EXCEPT ![p] = AfterNotification]
                  /\ UNCHANGED children
  /\ UNCHANGED <<config, command, output, hostname, env, lock_file,
                 log_handle, log_file, last_exit, today, result, ret,
                 at_start>>

\* stdin.write_all(body)?: a failure leaves the closure before child.wait().
mail_write(p) ==
  /\ pc[p] = "mail_write"
  /\ \/ /\ pc' = [pc EXCEPT ![p] = "mail_wait"]
        /\ UNCHANGED mail
     \/ /\ mail' = [mail EXCEPT ![p] = "write_failed"]
        /\ pc' = [pc EXCEPT ![p] = AfterNotification]
  /\ UNCHANGED <<config, command, output, hostname, env, lock_file,
                 log_handle, log_file, spawned, cmds, children, last_exit,
                 today, result, ret, events, at_start>>

\* child.wait(): the status of mail is discarded by `let _ =`.
mail_wait(p) ==
  /\ pc[p] = "mail_wait"
  /\ \E status \in Statuses :
       mail' = [mail EXCEPT ![p] = IF status = 0 THEN "exit_zero"
                                                  ELSE "exit_nonzero"]
  /\ children' = [children EXCEPT ![p] = @ \ {"mail"}]
  /\ pc' = [pc EXCEPT ![p] = AfterNotification]
  /\ UNCHANGED <<config, command, output, hostname, env, lock_file,
                 log_handle, log_file, spawned, cmds, last_exit, today,
                 result, ret, events, at_start>>

\* remove_lock reached only on success: a failed cycle keeps the marker.
remove_lock_on_success(p) ==
  /\ pc[p] = "remove_lock"
  /\ IF IsErr(result[p])
       THEN UNCHANGED <<lock_file, events>>
       ELSE /\ lock_file' = FALSE
            /\ events' = [events EXCEPT ![p] = Append(@, "remove_lock")]
  /\ pc' = [pc EXCEPT ![p] = "return"]
  /\ UNCHANGED <<config, command, output, hostname, env, log_handle, log_file,
                 spawned, cmds, children, last_exit, today, result, ret, mail,
                 at_start>>

\* let _ = fs::remove_file(lock_file)
remove_lock(p) ==
  /\ pc[p] = "remove_lock"
  /\ lock_file' = FALSE
  /\ events' = [events EXCEPT ![p] = Append(@, "remove_lock")]
  /\ pc' = [pc EXCEPT ![p] = "return"]
  /\ UNCHANGED <<config, command, output, hostname, env, log_handle, log_file,
                 spawned, cmds, children, last_exit, today, result, ret, mail,
                 at_start>>

\* A failed notification taking the place of the error it reports.
Returned_masked(p) ==
  IF mail[p] \in {"spawn_failed", "write_failed", "exit_nonzero"}
    THEN Err("mail", "", 0)
    ELSE result[p]

\* The value run_backup_cycle hands back: its last expression, `result`.
Returned(p) == result[p]

run_backup_cycle(p) ==
  /\ pc[p] = "return"
  /\ ret' = [ret EXCEPT ![p] = Returned(p)]
  /\ events' = [events EXCEPT ![p] = Append(@, "return")]
  /\ pc' = [pc EXCEPT ![p] = "returned"]
  /\ UNCHANGED <<config, command, output, hostname, env, lock_file,
                 log_handle, log_file, spawned, cmds, children, last_exit,
                 today, result, mail, at_start>>

\* ------------------------------------------------------------------- Next

Next ==
  \E p \in Procs :
    \/ check_lock(p)
    \/ create_lock(p)
    \/ open_log(p)
    \/ create_backup(p)
    \/ create_wait(p)
    \/ prune_backups(p)
    \/ prune_wait(p)
    \/ compact_repository(p)
    \/ compact_wait(p)
    \/ check_repository(p)
    \/ check_day_test(p)
    \/ check_wait(p)
    \/ log_complete(p)
    \/ handle_result(p)
    \/ send_failure_notification(p)
    \/ mail_write(p)
    \/ mail_wait(p)
    \/ remove_lock(p)
    \/ run_backup_cycle(p)

Spec == Init /\ [][Next]_vars

\* ----------------------------------------------------- one fair invocation

\* The invocation whose progress is followed.  No statement of the cycle
\* waits for another invocation, so it is followed on its own; the marker may
\* exist when it starts.
FairProcs == {1}

NextFair ==
  \E p \in FairProcs :
    \/ check_lock(p)
    \/ create_lock(p)
    \/ open_log(p)
    \/ create_backup(p)
    \/ create_wait(p)
    \/ prune_backups(p)
    \/ prune_wait(p)
    \/ compact_repository(p)
    \/ compact_wait(p)
    \/ check_repository(p)
    \/ check_day_test(p)
    \/ check_wait(p)
    \/ log_complete(p)
    \/ handle_result(p)
    \/ send_failure_notification(p)
    \/ mail_write(p)
    \/ mail_wait(p)
    \/ remove_lock(p)
    \/ run_backup_cycle(p)

\* An invocation that can take a step eventually takes one: the program goes
\* on to its next statement, and a child that is waited for eventually exits.
SpecFair == Init /\ [][NextFair]_vars /\ WF_vars(NextFair)

\* ------------------------------------------------------------------- main

\* maintenance.check_day is a u32: 0, a weekday, or a number that is none.
CheckDays == 0..(DaysInWeek + 1)

\* The statement main's match on cli.command runs first.
Entry(c) ==
  CASE c = "backup" -> "idle"
    [] c = "check" -> "check_repository"
    [] c = "init" -> "init_repository"
    [] c = "list" -> "list_archives"
    [] c = "mount" -> "mount_repository"
    [] c = "info" -> "info"

\* process::exit(1) before any command ran.
Exit(p, e) ==
  /\ ret' = [ret EXCEPT ![p] = e]
  /\ pc' = [pc EXCEPT ![p] = "returned"]

\* main up to std::env::set_var("BORG_PASSPHRASE", passphrase): the variable
\* is set in the environment of the process itself.
main(p) ==
  /\ pc[p] = "main"
  /\ command[p] # "generate-config"
  /\ \/ /\ env' = [env EXCEPT ![p] = TRUE]
        /\ pc' = [pc EXCEPT ![p] = "new"]
        /\ UNCHANGED ret
     \/ /\ Exit(p, Err("passphrase_file", "", 0))
        /\ UNCHANGED env
  /\ UNCHANGED <<config, command, output, hostname, lock_file, log_handle,
                 log_file, spawned, cmds, children, last_exit, today, result,
                 mail, events, at_start>>

\* BorgBackup::new(config): get_hostname runs `hostname -s`; then main
\* matches on cli.command.
new(p) ==
  /\ pc[p] = "new"
  /\ cmds' = [cmds EXCEPT ![p] = Append(@, HostnameCommand(p))]
  /\ \/ /\ pc' = [pc EXCEPT ![p] = Entry(command[p])]
        /\ UNCHANGED ret
     \/ Exit(p, Err("hostname", "", 0))
  /\ UNCHANGED <<config, command, output, hostname, env, lock_file,
                 log_handle, log_file, spawned, children, last_exit, today,
                 result, mail, events, at_start>>

\* let result = match cli.command { Commands::Check => check_repository() }
main_result(p) ==
  /\ pc[p] = "main_result"
  /\ ret' = [ret EXCEPT ![p] = IF IsErr(result[p]) THEN result[p] ELSE Ok]
  /\ last_exit' = [last_exit EXCEPT ![p] = NoExit]
  /\ pc' = [pc EXCEPT ![p] = "returned"]
  /\ UNCHANGED <<config, command, output, hostname, env, lock_file,
                 log_handle, log_file, spawned, cmds, children, today, result,
                 mail, events, at_start>>

\* The processes from their start: at most one of them runs `backup`.
InitMain ==
  /\ config \in Configs(BOOLEAN, BOOLEAN, CheckDays, {DefaultOptions},
                        {DefaultExclusions}, {DefaultJobs})
  /\ lock_file \in BOOLEAN
  /\ command \in {c \in [Procs -> Commands] :
                    Cardinality({p \in Procs : c[p] = "backup"}) <= 1}
  /\ output = [p \in Procs |-> DefaultOutput]
  /\ hostname = [p \in Procs |-> DefaultHostname]
  /\ env = [p \in Procs |-> FALSE]
  /\ cmds = [p \in Procs |-> <<>>]
  /\ pc = [p \in Procs |-> "main"]
  /\ InitLocals

NextMain ==
  \/ Next
  \/ \E p \in Procs : main(p)
  \/ \E p \in Procs : new(p)
  \/ \E p \in Procs : main_result(p)

SpecMain == InitMain /\ [][NextMain]_vars

\* ------------------------------------------------- every subcommand of main

\* enum Commands: the subcommands of the command line.
CliCommands ==
  {"init", "backup", "list", "mount", "generate-config", "check", "info"}

\* The files an OUTPUT path can name: the default, the file
\* config.logging.lock_file of a configuration in use names, or its
\* config.logging.log_file.
LockPath == "logging.lock_file"
LogPath == "logging.log_file"
OutputPaths == {DefaultOutput, LockPath, LogPath}

\* config.repository.encryption and the MOUNT_POINT of the command line.
Encryption == Str("encryption")
MountPoint == Str("mount_point")

InitCheckArgs == <<Str("info"), config.path>>
InitRepositoryArgs == <<Str("init"), Str("--encryption=") \o Encryption, config.path>>
ListArgs == <<Str("list"), config.path>>
MountArgs == <<Str("mount"), config.path, MountPoint>>
InfoArgs == <<Str("info"), config.path>>

\* ExitStatus::success(): the child exited with code 0.
success(status) == status = 0

\* Command::new("borg").args(..).status(), up to the child running: nothing
\* is logged, and a child that cannot be started is the command's error.
Run(p, name, args, waitpc) ==
  /\ spawned' = [spawned EXCEPT ![p] = Append(@, name)]
  /\ cmds' = [cmds EXCEPT ![p] = Append(@, Command(p, "borg", args))]
  /\ \/ /\ children' = [children EXCEPT ![p] = @ \cup {name}]
        /\ pc' = [pc EXCEPT ![p] = waitpc]
        /\ UNCHANGED result
     \/ /\ result' = [result EXCEPT ![p] = Err("spawn", name, 0)]
        /\ pc' = [pc EXCEPT ![p] = "main_result"]
        /\ UNCHANGED children

\* if !status.success() { return Err("borg ... failed") }  Ok(())
Finish(p, name) ==
  \E status \in Statuses :
    /\ children' = [children EXCEPT ![p] = @ \ {name}]
    /\ result' = [result EXCEPT ![p] =
                    IF success(status) THEN Ok
                    ELSE Err("exit", name, exit_code(status))]
    /\ pc' = [pc EXCEPT ![p] = "main_result"]

\* What a command other than backup leaves alone, whatever it runs.
CliFrame ==
  UNCHANGED <<config, command, output, hostname, env, lock_file, log_handle,
              log_file, last_exit, today, ret, mail, events, at_start>>

\* init_repository: `borg info` tells whether the repository exists; a
\* probe that cannot be started counts as a repository that does not.
init_repository(p) ==
  /\ pc[p] = "init_repository"
  /\ spawned' = [spawned EXCEPT ![p] = Append(@, "init_check")]
  /\ cmds' = [cmds EXCEPT ![p] = Append(@, Command(p, "borg", InitCheckArgs))]
  /\ \/ /\ children' = [children EXCEPT ![p] = @ \cup {"init_check"}]
        /\ pc' = [pc EXCEPT ![p] = "init_check_wait"]
     \/ /\ pc' = [pc EXCEPT ![p] = "init"]
        /\ UNCHANGED children
  /\ UNCHANGED result
  /\ CliFrame

\* if check.is_ok() && check.unwrap().success() { return Err(..exists..) }
init_check_wait(p) ==
  /\ pc[p] = "init_check_wait"
  /\ \E status \in Statuses :
       /\ children' = [children EXCEPT ![p] = @ \ {"init_check"}]
       /\ IF success(status)
            THEN /\ result' = [result EXCEPT ![p] = Err("exists", "init", 0)]
                 /\ pc' = [pc EXCEPT ![p] = "main_result"]
            ELSE /\ pc' = [pc EXCEPT ![p] = "init"]
                 /\ UNCHANGED result
  /\ UNCHANGED <<spawned, cmds>>
  /\ CliFrame

\* borg init --encryption=<encryption> <repo>
init(p) ==
  /\ pc[p] = "init"
  /\ Run(p, "init", InitRepositoryArgs, "init_wait")
  /\ CliFrame

init_wait(p) ==
  /\ pc[p] = "init_wait"
  /\ Finish(p, "init")
  /\ UNCHANGED <<spawned, cmds>>
  /\ CliFrame

\* list_archives with a test of the lock marker before it runs borg.
list_archives_locked(p) ==
  /\ pc[p] = "list_archives"
  /\ IF lock_file
       THEN /\ result' = [result EXCEPT ![p] = Err("lock_held", "", 0)]
            /\ pc' = [pc EXCEPT ![p] = "main_result"]
            /\ UNCHANGED <<spawned, cmds, children>>
       ELSE Run(p, "list", ListArgs, "list_wait")
  /\ CliFrame

\* borg list <repo>
list_archives(p) ==
  /\ pc[p] = "list_archives"
  /\ Run(p, "list", ListArgs, "list_wait")
  /\ CliFrame

list_wait(p) ==
  /\ pc[p] = "list_wait"
  /\ Finish(p, "list")
  /\ UNCHANGED <<spawned, cmds>>
  /\ CliFrame

\* borg mount <repo> <mount_point>
mount_repository(p) ==
  /\ pc[p] = "mount_repository"
  /\ Run(p, "mount", MountArgs, "mount_wait")
  /\ CliFrame

mount_wait(p) ==
  /\ pc[p] = "mount_wait"
  /\ Finish(p, "mount")
  /\ UNCHANGED <<spawned, cmds>>
  /\ CliFrame

\* Commands::Info: borg info <repo>, run by main itself.
info(p) ==
  /\ pc[p] = "info"
  /\ Run(p, "info", InfoArgs, "info_wait")
  /\ CliFrame

info_wait(p) ==
  /\ pc[p] = "info_wait"
  /\ Finish(p, "info")
  /\ UNCHANGED <<spawned, cmds>>
  /\ CliFrame

\* fs::write(output_path, DEFAULT_CONFIG): the file the path names is
\* created or truncated and holds the example configuration; written over
\* the log file, the lines logged so far are gone. main runs it before it
\* loads a configuration, and returns.
generate_example_config(p) ==
  /\ pc[p] = "main"
  /\ command[p] = "generate-config"
  /\ \/ /\ lock_file' = (lock_file \/ output[p] = LockPath)
        /\ log_file' = IF output[p] = LogPath
                          THEN [q \in Procs |-> <<>>]
                          ELSE log_file
        /\ ret' = [ret EXCEPT ![p] = Ok]
     \/ /\ ret' = [ret EXCEPT ![p] = Err("generate_config", "", 0)]
        /\ UNCHANGED <<lock_file, log_file>>
  /\ pc' = [pc EXCEPT ![p] = "returned"]
  /\ UNCHANGED <<config, command, output, hostname, env, log_handle, spawned,
                 cmds, children, last_exit, today, result, mail, events,
                 at_start>>

\* Two invocations of any subcommands, at most one of them `backup`.
InitCli ==
  /\ config \in Configs(BOOLEAN, BOOLEAN, 0..MaxCheckDay, {DefaultOptions},
                        {DefaultExclusions}, {DefaultJobs})
  /\ lock_file \in BOOLEAN
  /\ command \in {c \in [Procs -> CliCommands] :
                    Cardinality({p \in Procs : c[p] = "backup"}) <= 1}
  /\ output \in {o \in [Procs -> OutputPaths] :
                   \A p \in Procs :
                     command[p] # "generate-config" => o[p] = DefaultOutput}
  /\ hostname = [p \in Procs |-> DefaultHostname]
  /\ env = [p \in Procs |-> FALSE]
  /\ cmds = [p \in Procs |-> <<>>]
  /\ pc = [p \in Procs |-> "main"]
  /\ InitLocals

NextCli ==
  \/ NextMain
  \/ \E p \in Procs : init_repository(p)
  \/ \E p \in Procs : init_check_wait(p)
  \/ \E p \in Procs : init(p)
  \/ \E p \in Procs : init_wait(p)
  \/ \E p \in Procs : list_archives(p)
  \/ \E p \in Procs : list_wait(p)
  \/ \E p \in Procs : mount_repository(p)
  \/ \E p \in Procs : mount_wait(p)
  \/ \E p \in Procs : info(p)
  \/ \E p \in Procs : info_wait(p)
  \/ \E p \in Procs : generate_example_config(p)

SpecCli == InitCli /\ [][NextCli]_vars

\* ---------------------------------------------- the argument lists alone

\* The i-th pattern of config.exclusions and of the exclude of job k, and
\* the source of job k: all different, so that an argument tells its origin.
GlobalPattern(i) == <<"*.global", Digit[i + 1]>>
JobPattern(k, i) == <<"*.job", Digit[k + 1], ".", Digit[i + 1]>>
Source(k) == <<"/src/", Digit[k + 1]>>

AllOptions ==
  [one_file_system : BOOLEAN, exclude_caches : BOOLEAN,
   show_progress : BOOLEAN, show_stats : BOOLEAN]

ExclusionLists ==
  {[i \in 1..n |-> GlobalPattern(i)] : n \in 0..MaxExclusions}

\* The job lists: each job is enabled or not and has 0..MaxJobExcludes
\* patterns of its own.
JobLists ==
  UNION {{[k \in 1..n |->
             [source |-> Source(k), enabled |-> f[k][1],
              exclude |-> [i \in 1..f[k][2] |-> JobPattern(k, i)]]] :
            f \in [1..n -> BOOLEAN \X (0..MaxJobExcludes)]} :
         n \in 0..MaxJobs}

\* After construction, with the options, exclusions and jobs of any Config.
InitArgs ==
  /\ config \in Configs({FALSE}, {FALSE}, {0}, AllOptions, ExclusionLists,
                        JobLists)
  /\ lock_file = FALSE
  /\ command = [p \in Procs |-> "backup"]
  /\ output = [p \in Procs |-> DefaultOutput]
  /\ hostname = [p \in Procs |-> DefaultHostname]
  /\ env = [p \in Procs |-> TRUE]
  /\ cmds = [p \in Procs |-> <<HostnameCommand(p)>>]
  /\ pc = [p \in Procs |-> "idle"]
  /\ InitLocals

\* The cycle up to the spawn of `borg create`: what builds its arguments.
NextArgs ==
  \E p \in Procs :
    \/ check_lock(p)
    \/ create_lock(p)
    \/ open_log(p)
    \/ create_backup(p)

SpecArgs == InitArgs /\ [][NextArgs]_vars

\* ------------------------------------- two installations, one repository

\* The characters of a short host name: letters and the hyphen.
HostChars == {"a", "b", "-"}

\* What `hostname -s` prints: a name that neither starts nor ends with a
\* hyphen.
Hostnames ==
  {h \in UNION {[1..n -> HostChars] : n \in 1..MaxHostLen} :
     h[1] # "-" /\ h[Len(h)] # "-"}

\* After construction on two hosts of any names, which back up into the
\* same repository.
InitHosts ==
  /\ config \in Configs({FALSE}, {FALSE}, {0}, {DefaultOptions},
                        {DefaultExclusions}, {DefaultJobs})
  /\ lock_file = FALSE
  /\ command = [p \in Procs |-> "backup"]
  /\ output = [p \in Procs |-> DefaultOutput]
  /\ hostname \in [Procs -> Hostnames]
  /\ env = [p \in Procs |-> TRUE]
  /\ cmds = [p \in Procs |-> <<HostnameCommand(p)>>]
  /\ pc = [p \in Procs |-> "idle"]
  /\ InitLocals

\* The cycle up to the spawn of `borg prune`.
NextHosts ==
  \/ NextArgs
  \/ \E p \in Procs : create_wait(p)
  \/ \E p \in Procs : prune_backups(p)

SpecHosts == InitHosts /\ [][NextHosts]_vars

\* ================================================================= claims

\* The check-then-create race has happened: an invocation passed check_lock
\* while the other had passed it too and had not yet run create_lock.
raced ==
  \E p \in Procs :
    pc[p] # "idle" /\ ~at_start[p].lock /\ at_start[p].peer = "acquiring"

\* p passed check_lock and create_lock: it entered Locked.
Acquired(p) ==
  /\ pc[p] \notin {"idle", "create_lock"}
  /\ ~(pc[p] = "returned" /\ ret[p].kind \in {"lock_held", "create_lock"})

\* p ran none of its stages and touched neither the log nor a subprocess.
NothingDone(p) ==
  /\ ~log_handle[p]
  /\ log_file[p] = <<>>
  /\ spawned[p] = <<>>
  /\ children[p] = {}

\* C1: every invocation that passes check_lock and create_lock executes
\* remove_lock exactly once before it returns, on every exit path (success,
\* log-open failure, hard failure of a stage); it never executes it twice.
C1_LockReleasedExactlyOnce ==
  \A p \in Procs :
    /\ Count(events[p], "remove_lock") <= 1
    /\ (pc[p] = "returned" /\ Acquired(p)) =>
         /\ Count(events[p], "remove_lock") = 1
         /\ events[p][Len(events[p])] = "return"
         /\ events[p][Len(events[p]) - 1] = "remove_lock"

\* C1 witness: one invocation returned success and the other returned the
\* hard failure of a stage, each after its single remove_lock.
C1_Witness ==
  \E p, q \in Procs :
    /\ pc[p] = "returned" /\ ret[p] = Ok
    /\ pc[q] = "returned" /\ ret[q].kind = "exit"
    /\ Count(events[p], "remove_lock") = 1
    /\ Count(events[q], "remove_lock") = 1

\* p acquired the marker and has reached its terminal state.
Terminated(p) == pc[p] = "returned" /\ Acquired(p)

\* The marker is not leaked: once an invocation that acquired it has
\* terminated, it is absent unless another invocation holds it.
NotLeaked ==
  \A p \in Procs :
    (Terminated(p) /\ \A q \in Procs \ {p} : ~InCycle(q)) => ~lock_file

\* C2 as stated: the marker exists whenever an invocation executes a stage,
\* is absent before that invocation's acquisition and after its terminal
\* transition.
C2_Original ==
  /\ \A p \in Procs : InStage(p) => lock_file
  /\ \A p \in Procs : pc[p] = "create_lock" => ~lock_file
  /\ NotLeaked

\* C2 amended: as long as no two invocations have both passed check_lock
\* before either ran create_lock, the marker exists whenever an invocation
\* executes a stage and is absent before that invocation's acquisition; in
\* every execution it is absent after the terminal transition of an
\* invocation that acquired it, unless another invocation holds it.
C2_MarkerHeldWithoutRace ==
  /\ ~raced => \A p \in Procs : InStage(p) => lock_file
  /\ ~raced => \A p \in Procs : pc[p] = "create_lock" => ~lock_file
  /\ NotLeaked

\* C2 witness: without a race, one invocation executes a stage under the
\* marker after the other acquired it, failed and released it.
C2_Witness ==
  \E p, q \in Procs :
    /\ ~raced
    /\ pc[p] = "prune_wait" /\ lock_file
    /\ Terminated(q) /\ IsErr(ret[q])

\* p returned the lock-held error at once, having done nothing.
Rejected(p) ==
  /\ pc[p] = "returned"
  /\ ret[p] = Err("lock_held", "", 0)
  /\ NothingDone(p)

\* C3 as stated: an invocation that starts while another invocation is
\* running its cycle observes the lock as held and runs none of its stages.
C3_Original ==
  \A p \in Procs :
    (pc[p] # "idle" /\ at_start[p].peer # "none") => Rejected(p)

\* C3 amended: as long as no two invocations have raced through acquisition,
\* an invocation that starts while another invocation is between its
\* create_lock and its remove_lock returns the lock-held error at once and
\* runs none of its stages.
C3_SecondInvocationRejected ==
  \A p \in Procs :
    (~raced /\ pc[p] # "idle" /\ at_start[p].peer = "locked") => Rejected(p)

\* C3 witness: an invocation was rejected while the other one was in a stage.
C3_Witness ==
  \E p, q \in Procs :
    /\ at_start[p].peer = "locked" /\ Rejected(p)
    /\ pc[q] = "create_wait"

\* C4: when the marker exists at the moment run_backup_cycle is invoked, the
\* call returns the lock-held error without opening or writing the log file
\* and without spawning any subprocess; nothing else returns that error.
C4_LockHeldDoesNothing ==
  \A p \in Procs :
    /\ (pc[p] # "idle" /\ at_start[p].lock) => Rejected(p)
    /\ ret[p].kind = "lock_held" => (at_start[p].lock /\ Rejected(p))

\* C4 witness: a marker nobody holds (left by a killed process) rejects an
\* invocation.
C4_Witness ==
  \E p \in Procs :
    /\ Rejected(p) /\ at_start[p].lock /\ at_start[p].peer = "none"
    /\ \A q \in Procs \ {p} : pc[q] = "idle"

\* The archiver subprocesses p tried to spawn, in order (mail left out).
BorgSpawned(p) == SelectSeq(spawned[p], LAMBDA x : x \in StageSet)

StageIdx(s) == CHOOSE i \in 1..Len(Stages) : Stages[i] = s

\* The statement at which the cycle continues after stage s succeeded.
ContinuesAt(s) ==
  CASE s = "create" -> "prune_backups"
    [] s = "prune" -> "compact_repository"
    [] s = "compact" -> "check_repository"
    [] s = "check" -> "log_complete"

\* C5: the stages run in the fixed order create, prune, compact, check; exit
\* code 0 or 1 makes a stage succeed and the cycle continue with the next
\* stage (prune after a create that exited with 1); exit code >= 2 or an exit
\* without a code makes the stage fail, and then no later stage is spawned.
C5_ExitCodeThresholds ==
  \A p \in Procs :
    LET b == BorgSpawned(p)
        e == last_exit[p]
    IN /\ \A i, j \in 1..Len(b) : i < j => StageIdx(b[i]) < StageIdx(b[j])
       /\ Len(b) >= 1 => b[1] = "create"
       /\ Len(b) >= 2 => b[2] = "prune"
       /\ (e.stage \in StageSet /\ e.status \in {0, 1}) =>
            /\ pc[p] = ContinuesAt(e.stage)
            /\ ~IsErr(result[p])
       /\ (e.stage \in StageSet /\ (e.status >= 2 \/ e.status = Signal)) =>
            /\ pc[p] = "handle_result"
            /\ result[p] = Err("exit", e.stage,
                               IF e.status = Signal THEN 2 ELSE e.status)
       /\ result[p].kind \in {"exit", "spawn"} =>
            /\ b # <<>>
            /\ b[Len(b)] = result[p].stage
            /\ ~InStage(p)

\* C5 witness: one cycle runs prune after its create exited with 1, after
\* the other cycle stopped at a prune that exited without a code or with 2.
C5_Witness ==
  \E p, q \in Procs :
    /\ pc[p] = "prune_wait"
    /\ log_file[p][2] = "Backup created with warnings"
    /\ pc[q] = "returned"
    /\ ret[q] = Err("exit", "prune", 2)
    /\ BorgSpawned(q) = <<"create", "prune">>

\* The lines the stages log after an exit with code 0.
PlainLines ==
  {"Backup created successfully", "Prune completed", "Compact completed",
   "Integrity check passed"}

\* C6: whenever the subprocess of create, prune, compact or check exits with
\* code 1, the stage logs a warning line, distinct from the line it logs for
\* exit code 0, and the cycle continues.
C6_WarningLoggedForEveryStage ==
  \A p \in Procs :
    (last_exit[p].stage \in StageSet /\ last_exit[p].status = 1) =>
      /\ pc[p] = ContinuesAt(last_exit[p].stage)
      /\ log_file[p] # <<>>
      /\ log_file[p][Len(log_file[p])] \notin PlainLines

\* The cycle of p failed: a stage or the opening of the log returned an error.
CycleFailed(p) == result[p].kind \in {"exit", "spawn", "open_log"}

\* A stage of p failed hard: bad exit status or a subprocess that did not start.
StageFailed(p) == result[p].kind \in {"exit", "spawn"}

\* C7: when a stage fails hard, the error is logged, then the notification
\* is dispatched and its mail subprocess, if any, is waited for, then the
\* marker is removed, then the error is returned.
C7_FailureOrder ==
  \A p \in Procs :
    StageFailed(p) =>
      /\ "remove_lock" \in {events[p][i] : i \in 1..Len(events[p])} =>
           /\ Len(events[p]) >= 3
           /\ events[p][1] = "log_error"
           /\ events[p][2] = "notify"
           /\ events[p][3] = "remove_lock"
           /\ "mail" \notin children[p]
      /\ pc[p] = "returned" =>
           /\ events[p] = <<"log_error", "notify", "remove_lock", "return">>
           /\ ret[p] = result[p]

\* C8: the error run_backup_cycle returns for a failed cycle is the error
\* of the failing stage whatever the notification does (spawn failure, write
\* failure, non-zero exit of mail), and the lock is released all the same.
C8_NotificationNeverMasksError ==
  \A p \in Procs :
    (pc[p] = "returned" /\ Acquired(p)) =>
      /\ ret[p] = result[p]
      /\ ret[p].kind \in {"ok", "exit", "spawn", "open_log"}
      /\ StageFailed(p) =>
           /\ BorgSpawned(p) # <<>>
           /\ ret[p].stage = BorgSpawned(p)[Len(BorgSpawned(p))]
           /\ ret[p].kind = "exit" => ret[p].code >= 2
      /\ Count(events[p], "remove_lock") = 1
      /\ mail[p] # "none" => IsErr(ret[p])

\* C8 witness: two failed cycles returned the error of their stage, one after
\* the write to mail failed, one after mail exited with a non-zero status.
C8_Witness ==
  \E p, q \in Procs :
    /\ pc[p] = "returned" /\ mail[p] = "write_failed"
    /\ ret[p] = Err("exit", "create", 2)
    /\ pc[q] = "returned" /\ mail[q] = "exit_nonzero"
    /\ ret[q] = Err("spawn", "prune", 0)
    /\ ~lock_file

\* C9: a cycle in which a stage fails hard appends exactly one "ERROR" line
\* and no "Backup cycle complete" line to the log file; a cycle in which all
\* stages succeed appends no "ERROR" line and exactly one "Backup cycle
\* complete" line.
C9_LogLinesOfACycle ==
  \A p \in Procs :
    /\ Count(log_file[p], "ERROR") <= 1
    /\ Count(log_file[p], "Backup cycle complete") <= 1
    /\ (pc[p] = "returned" /\ StageFailed(p)) =>
         /\ Count(log_file[p], "ERROR") = 1
         /\ Count(log_file[p], "Backup cycle complete") = 0
    /\ (pc[p] = "returned" /\ ret[p] = Ok) =>
         /\ Count(log_file[p], "ERROR") = 0
         /\ Count(log_file[p], "Backup cycle complete") = 1
         /\ log_file[p][Len(log_file[p])] = "Backup cycle complete"

\* C9 witness: one cycle completed and the other failed in its check stage.
C9_Witness ==
  \E p, q \in Procs :
    /\ pc[p] = "returned" /\ ret[p] = Ok
    /\ Count(log_file[p], "Backup cycle complete") = 1
    /\ pc[q] = "returned" /\ ret[q] = Err("exit", "check", 2)
    /\ Count(log_file[q], "ERROR") = 1

\* C10: with notifications.enabled = false a failing cycle still logs the
\* error and removes the marker, and no mail subprocess is ever spawned; with
\* notifications.enabled = true a failing cycle tries to spawn mail exactly
\* once.
C10_NotificationGate ==
  \A p \in Procs :
    /\ ~config.enabled => (Count(spawned[p], "mail") = 0 /\ mail[p] = "none")
    /\ Count(spawned[p], "mail") <= 1
    /\ (pc[p] = "returned" /\ CycleFailed(p)) =>
         /\ Count(events[p], "log_error") = 1
         /\ log_handle[p] => Count(log_file[p], "ERROR") = 1
         /\ Count(events[p], "remove_lock") = 1
         /\ Count(spawned[p], "mail") = (IF config.enabled THEN 1 ELSE 0)
    /\ (pc[p] = "returned" /\ ~CycleFailed(p)) => Count(spawned[p], "mail") = 0

\* C10 witness: with notifications disabled, a cycle failed in compact,
\* logged the error, released the marker and spawned no mail.
C10_Witness ==
  \E p \in Procs :
    /\ ~config.enabled
    /\ pc[p] = "returned" /\ ret[p] = Err("exit", "compact", 2)
    /\ Count(log_file[p], "ERROR") = 1
    /\ "mail" \notin {spawned[p][i] : i \in 1..Len(spawned[p])}
    /\ ~lock_file

\* C11: check_repository spawns `borg check` exactly when check_day is a
\* weekday number 1..7 equal to today's; with check_day = 0, or any other
\* value that is not today's number, it spawns nothing, logs nothing and
\* returns Ok(()); this holds at the end of the cycle and for the `check`
\* subcommand alike, and nothing else spawns a check.
C11_CheckDayGate ==
  [][\A p \in Procs :
       LET due == config.check_day \in Weekdays /\ today[p] = config.check_day
           ran == Count(spawned'[p], "check") - Count(spawned[p], "check")
       IN  /\ ran # 0 => pc[p] = "check_day_test"
           /\ (pc[p] = "check_day_test" /\ pc'[p] # pc[p]) =>
                /\ ran = (IF due THEN 1 ELSE 0)
                /\ due => cmds'[p] = Append(cmds[p],
                                            Command(p, "borg", CheckArgs))
                /\ ~due => /\ pc'[p] = AfterStage(p, "check")
                           /\ log_file' = log_file
                           /\ cmds' = cmds
                           /\ children' = children
                           /\ result' = result]_vars

\* The `check` subcommand is waiting for its `borg check` on the last day of
\* the week, and a cycle whose clock showed another day has ended without one.
C11_Witness ==
  \E p, q \in Procs :
    /\ command[p] = "check" /\ pc[p] = "check_wait"
    /\ today[p] = DaysInWeek /\ config.check_day = DaysInWeek
    /\ command[q] = "backup" /\ pc[q] = "returned" /\ ret[q] = Ok
    /\ Count(spawned[q], "check") = 0

\* The lines p appended to the log file, as a set.
Logged(p) == {log_file[p][i] : i \in 1..Len(log_file[p])}

\* C12: with auto_compact off the compact stage spawns nothing, logs nothing
\* and cannot fail, and the cycle goes from the successful prune straight to
\* the check-day decision; with auto_compact on, `borg compact` is spawned
\* exactly once, after the successful prune and before anything else.
C12_CompactGate ==
  \A p \in Procs :
    LET n == Count(spawned[p], "compact")
        pruned == "Prune completed" \in Logged(p)
    IN  /\ n <= 1
        /\ n = 1 => /\ config.auto_compact /\ pruned
                    /\ SubSeq(spawned[p], 1, 3) = <<"create", "prune", "compact">>
                    /\ cmds[p][4] = Command(p, "borg", CompactArgs)
        /\ (pruned /\ pc[p] # "compact_repository") =>
             n = (IF config.auto_compact THEN 1 ELSE 0)
        /\ ~config.auto_compact =>
             /\ n = 0
             /\ Logged(p) \cap {"Compacting repository...", "Compact completed"} = {}
             /\ pc[p] # "compact_wait"
             /\ result[p].stage # "compact"
             /\ pc[p] \in {"check_repository", "check_day_test"} =>
                  /\ log_file[p][Len(log_file[p])] = "Prune completed"
                  /\ spawned[p] = <<"create", "prune">>
                  /\ children[p] = {}

\* With auto_compact off an invocation has reached the check-day decision
\* having spawned create and prune only.
C12_Witness ==
  \E p \in Procs :
    /\ ~config.auto_compact
    /\ pc[p] = "check_day_test"
    /\ spawned[p] = <<"create", "prune">>

\* The Commands of p that are a `borg create`.
Creates(p) ==
  SelectSeq(cmds[p], LAMBDA c : c.program = "borg" /\ c.args[1] = Str("create"))

\* The argument is a <repo>::<archive> target.
IsTarget(arg) == \E i \in 1..Len(arg) : arg[i] = "::"

\* The flag each option stands for.
FlagOf ==
  [show_stats |-> "--stats", show_progress |-> "--progress",
   one_file_system |-> "--one-file-system",
   exclude_caches |-> "--exclude-caches"]

\* The flags of the options that are on, as a set.
OnFlags == {Str(FlagOf[o]) : o \in {o \in DOMAIN FlagOf : config.options[o]}}

\* The jobs that are enabled, in the order of config.jobs.
EnabledJobs == SelectSeq(config.jobs, LAMBDA job : job.enabled)

\* The number of arguments the first k jobs of the list contribute.
RECURSIVE ArgsOfJobs(_, _)
ArgsOfJobs(jobs, k) ==
  IF k = 0 THEN 0
  ELSE ArgsOfJobs(jobs, k - 1) + 1 + 2 * Len(jobs[k].exclude)

\* C13: the arguments of `borg create` are, in this order: create, the flags
\* of the options that are on, --compression=<codec>, an --exclude <pattern>
\* pair for each global exclusion in configuration order, the one
\* <repo>::<archive> target, and for each enabled job in order its source
\* followed by its own --exclude pairs; no global exclusion follows the target.
C13_CreateArgumentOrder ==
  \A p \in Procs : \A n \in 1..Len(Creates(p)) :
    LET a == Creates(p)[n].args
        c == 2 + Cardinality(OnFlags)
        t == c + 2 * Len(config.exclusions) + 1
        jobs == EnabledJobs
    IN  /\ a[1] = Str("create")
        /\ {a[i] : i \in 2..(c - 1)} = OnFlags
        /\ a[c] = Str("--compression=") \o config.compression
        /\ \A i \in 1..Len(config.exclusions) :
             /\ a[c + 2 * i - 1] = Str("--exclude")
             /\ a[c + 2 * i] = config.exclusions[i]
        /\ IsTarget(a[t])
        /\ {i \in 1..Len(a) : IsTarget(a[i])} = {t}
        /\ Len(a) = t + ArgsOfJobs(jobs, Len(jobs))
        /\ \A k \in 1..Len(jobs) :
             LET at == t + ArgsOfJobs(jobs, k - 1) + 1
             IN  /\ a[at] = jobs[k].source
                 /\ \A i \in 1..Len(jobs[k].exclude) :
                      /\ a[at + 2 * i - 1] = Str("--exclude")
                      /\ a[at + 2 * i] = jobs[k].exclude[i]
        /\ \A i \in (t + 1)..Len(a) :
             a[i] \notin {config.exclusions[j] : j \in 1..Len(config.exclusions)}

\* A create was spawned with every option on, two global exclusions and two
\* enabled jobs that each have an exclusion of their own.
C13_Witness ==
  \E p \in Procs :
    /\ Len(Creates(p)) = 1
    /\ Cardinality(OnFlags) = 4
    /\ Len(config.exclusions) = 2
    /\ Len(EnabledJobs) = 2
    /\ \A k \in 1..2 : Len(config.jobs[k].exclude) = 1

\* C14: a disabled job contributes neither its source nor its exclusions to
\* the arguments of `borg create`, wherever it stands in config.jobs: what
\* follows the target is what the enabled jobs alone, in their original
\* order, contribute.
C14_DisabledJobsContributeNothing ==
  \A p \in Procs : \A n \in 1..Len(Creates(p)) :
    LET a == Creates(p)[n].args
        t == CHOOSE i \in 1..Len(a) : IsTarget(a[i])
        after == SubSeq(a, t + 1, Len(a))
    IN  /\ after = JobArgs(EnabledJobs)
        /\ \A k \in 1..Len(config.jobs) :
             ~config.jobs[k].enabled =>
               \A i \in 1..Len(a) :
                 /\ a[i] # config.jobs[k].source
                 /\ \A j \in 1..Len(config.jobs[k].exclude) :
                      a[i] # config.jobs[k].exclude[j]

\* A create was spawned from a job list whose first job is disabled and has
\* an exclusion, and whose second job is enabled.
C14_Witness ==
  \E p \in Procs :
    /\ Len(Creates(p)) = 1
    /\ Len(config.jobs) = 2
    /\ ~config.jobs[1].enabled /\ Len(config.jobs[1].exclude) = 1
    /\ config.jobs[2].enabled

\* The Commands of p that are a `borg prune`.
Prunes(p) ==
  SelectSeq(cmds[p], LAMBDA c : c.program = "borg" /\ c.args[1] = Str("prune"))

\* The archive a `borg create` Command names: what follows "::" in its target.
ArchiveOf(c) ==
  LET target == c.args[CHOOSE i \in 1..Len(c.args) : IsTarget(c.args[i])]
      sep == CHOOSE i \in 1..Len(target) : target[i] = "::"
  IN  SubSeq(target, sep + 1, Len(target))

\* The prefix a `borg prune` Command selects archives by: what follows
\* "--prefix=" in its third argument.
PrefixOf(c) == Tail(c.args[3])

\* C15: the prefix of an installation's prune matches only archives this
\* installation created: when two installations with different host names
\* share the repository, no archive the one created is matched by the
\* prefix the other prunes with.
C15_PrefixMatchesOwnArchivesOnly ==
  \A p, q \in Procs :
    hostname[p] # hostname[q] =>
      \A i \in 1..Len(Creates(p)) : \A j \in 1..Len(Prunes(q)) :
        ~IsPrefix(PrefixOf(Prunes(q)[j]), ArchiveOf(Creates(p)[i]))

\* C16: BORG_PASSPHRASE is in the environment of the borg subprocesses only:
\* neither the `hostname` lookup nor the `mail` of a failure notification is
\* spawned with it.
C16_PassphraseOnlyForBorg ==
  \A p \in Procs : \A i \in 1..Len(cmds[p]) :
    cmds[p][i].passphrase => cmds[p][i].program = "borg"

\* The open of the log file has failed in p's cycle.
OpenLogFailed(p) == "open_log" \in {result[p].kind, ret[p].kind}

\* C17: when open_log fails after the lock was acquired, the invocation
\* spawns no archiver subprocess and enters no stage, removes the marker
\* before it returns, and returns the error of open_log.
C17_OpenLogFailure ==
  \A p \in Procs :
    OpenLogFailed(p) =>
      /\ Acquired(p)
      /\ BorgSpawned(p) = <<>>
      /\ children[p] \cap StageSet = {}
      /\ ~InStage(p)
      /\ ~log_handle[p] /\ log_file[p] = <<>>
      /\ result[p] = Err("open_log", "", 0)
      /\ pc[p] = "returned" =>
           /\ ret[p] = Err("open_log", "", 0)
           /\ Count(events[p], "remove_lock") = 1
           /\ SubSeq(events[p], Len(events[p]) - 1, Len(events[p]))
                = <<"remove_lock", "return">>

\* An invocation has returned the error of open_log, with notifications on:
\* the mail is the only program it spawned.
C17_Witness ==
  \E p \in Procs :
    /\ pc[p] = "returned"
    /\ ret[p].kind = "open_log"
    /\ spawned[p] = <<"mail">>

\* C18: acquiring the lock is a check followed by a create, not one step: an
\* invocation that finds the marker absent leaves it absent until its own
\* create_lock, and create_lock succeeds whether or not the marker exists by
\* then.  So two invocations can both pass the check, both create the
\* marker, and run their stages at the same time (C18_Witness).
C18_CheckThenCreate ==
  [][\A p \in Procs :
       /\ (pc[p] = "idle" /\ pc'[p] = "create_lock") =>
            ~lock_file /\ ~lock_file'
       /\ (pc[p] = "create_lock" /\ pc'[p] = "open_log") => lock_file'
       /\ (pc[p] = "create_lock" /\ lock_file) =>
            ENABLED (create_lock(p) /\ pc'[p] = "open_log")]_vars

\* Both invocations found the marker absent, both created it, and both now
\* wait for a `borg create` of their own.
C18_Witness ==
  \A p \in Procs :
    /\ ~at_start[p].lock
    /\ pc[p] = "create_wait"
    /\ "create" \in children[p]

\* The stage whose child p is waiting for, if any.
WaitingFor(p) ==
  CASE pc[p] = "create_wait" -> {"create"}
    [] pc[p] = "prune_wait" -> {"prune"}
    [] pc[p] = "compact_wait" -> {"compact"}
    [] pc[p] = "check_wait" -> {"check"}
    [] OTHER -> {}

\* C19: if every subprocess that is waited for eventually exits, every
\* invocation that acquired the lock eventually returns, with success or
\* with an error, having removed the marker; and the stages run one at a
\* time: the only archiver child an invocation has is the one of the stage
\* it is waiting in, so none is started before the previous one has exited.
C19_CycleTerminatesStagesInSequence ==
  \A p \in Procs :
    /\ [](children[p] \cap StageSet = WaitingFor(p))
    /\ InCycle(p) ~> (/\ pc[p] = "returned"
                       /\ ret[p].kind \in {"ok", "open_log", "spawn", "exit"}
                       /\ Count(events[p], "remove_lock") = 1)

\* An invocation has returned Ok after all four stages ran, each child
\* having exited before the next was spawned.
C19_Witness ==
  \E p \in Procs :
    /\ pc[p] = "returned" /\ ret[p] = Ok
    /\ spawned[p] = Stages
    /\ children[p] = {}

\* C20: an invocation that is rejected, by the marker it found or by the
\* failure of its create_lock, leaves the marker as it is and has then
\* returned for good; the marker is removed only by the remove_lock of an
\* invocation that created it, so the marker of a running cycle survives
\* every rejected invocation.
C20_RejectedLeavesMarker ==
  [][\A p \in Procs :
       /\ (pc[p] \in {"idle", "create_lock"} /\ pc'[p] \notin {pc[p], "open_log"}) =>
            /\ lock_file' = lock_file
            /\ events'[p] = <<>>
       /\ (pc'[p] = "returned" /\ ret'[p].kind \in {"lock_held", "create_lock"}) =>
            Count(events'[p], "remove_lock") = 0
       /\ pc[p] = "returned" => pc'[p] = "returned"
       /\ (lock_file /\ ~lock_file') =>
            \E q \in Procs : /\ pc[q] = "remove_lock" /\ pc'[q] = "return"
                             /\ Acquired(q)]_vars

\* One invocation was rejected by the marker of the other, which is still
\* in its stages with the marker in place.
C20_Witness ==
  \E p, q \in Procs :
    /\ pc[p] = "returned" /\ ret[p].kind = "lock_held"
    /\ at_start[p].peer = "locked"
    /\ InStage(q) /\ spawned[q] # <<>>
    /\ lock_file

\* An invocation of a subcommand other than backup, and a step it takes.
Cli(p) == command[p] # "backup"
Moved(p) == pc'[p] # pc[p]

\* The subcommands that run borg as the first thing they do.
RunsBorg == {"init", "list", "mount", "info"}

\* The step of p is not one of the lock protocol or of the log: the marker
\* was not tested, created or removed, and the log not opened.
NoLockNoLog(p) ==
  /\ log_handle' = log_handle
  /\ at_start' = at_start
  /\ events' = events
  /\ result'[p].kind \notin {"lock_held", "create_lock", "open_log"}
  /\ ret'[p].kind \notin {"lock_held", "create_lock", "open_log"}

\* The first statement of init, list, mount and info starts borg, whether
\* the marker is there or not.
StartsBorg(p) ==
  (command[p] \in RunsBorg /\ pc[p] = Entry(command[p]))
    => /\ Len(cmds'[p]) = Len(cmds[p]) + 1
       /\ cmds'[p][Len(cmds'[p])].program = "borg"

\* C21 as stated: no step of init, list, mount, check, info or
\* generate-config tests, creates or removes the lock marker or changes the
\* log file, and init, list, mount and info start borg whether or not the
\* marker is there.
C21_OnlyBackupTouchesLockAndLog ==
  [][\A p \in Procs :
       (Cli(p) /\ Moved(p)) =>
         /\ NoLockNoLog(p)
         /\ lock_file' = lock_file
         /\ log_file' = log_file
         /\ StartsBorg(p)]_vars

\* C21, amended: init, list, mount, check and info never test, create or
\* remove the lock marker and never open or change the log file, and init,
\* list, mount and info start borg whether or not the marker is there;
\* generate-config runs no lock protocol either, but it writes the file its
\* OUTPUT names: the marker comes to exist when OUTPUT names the marker, the
\* logged lines are lost when OUTPUT names the log file, and with any other
\* OUTPUT both are left alone.
C21_OnlyBackupOrOutputTouchesLockAndLog ==
  [][\A p \in Procs :
       (Cli(p) /\ Moved(p)) =>
         /\ NoLockNoLog(p)
         /\ StartsBorg(p)
         /\ lock_file' # lock_file =>
              /\ command[p] = "generate-config"
              /\ output[p] = LockPath
              /\ lock_file'
         /\ log_file' # log_file =>
              /\ command[p] = "generate-config"
              /\ output[p] = LogPath
              /\ \A q \in Procs : log_file'[q] = <<>>]_vars

\* list, mount, info or init has its borg running while a backup cycle that
\* acquired the lock has its own borg running, the marker in place.
C21_Witness ==
  \E p \in Procs, q \in Procs :
    /\ command[p] \in RunsBorg
    /\ children[p] # {}
    /\ command[q] = "backup"
    /\ InStage(q)
    /\ children[q] # {}
    /\ log_handle[q]
    /\ lock_file

====
